---------------------------- MODULE Spec2Model ----------------------------
(***************************************************************************)
(* Model of streamlit_clinic_dashboard_normal_v14.py: a Streamlit script   *)
(* that is re-run from top to bottom, once per session, on every upload    *)
(* and every widget change.  A run loads and validates the uploaded CSV    *)
(* and then executes seven sections in order; a section reads clinic_df    *)
(* and its own widgets and renders its result.                             *)
(*                                                                         *)
(* Text is a sequence of character codes, so that Python's string order    *)
(* (sorted(), groupby key order, "m < selected_month") is the order the    *)
(* model computes.  Money is an integer number of cents.                    *)
(***************************************************************************)
EXTENDS Integers, Sequences, FiniteSets, TLC

VARIABLES
    uploaded,   \* per session: the file in the uploader widget, or NoFile
    pc,         \* per session: the place the script run has reached
    clinic_df,  \* per session: the rows read from the file (module global)
    view,       \* per session: what the section executed last rendered
    cache,      \* st.cache_data store of generate_fake_kpis, one per server
    cache_by    \* history: the session whose run filled each cache entry

vars == <<uploaded, pc, clinic_df, view, cache, cache_by>>

-----------------------------------------------------------------------------
(* Text and numbers *)

Dash == 45
Zero == 48

RECURSIVE Digits(_)
\* str(n) for a natural number n: its decimal digits as character codes
Digits(n) ==
    IF n < 10 THEN <<Zero + n>> ELSE Append(Digits(n \div 10), Zero + (n % 10))

RECURSIVE Pad(_, _)
\* n in decimal, zero-padded on the left to width w
Pad(n, w) ==
    IF w = 0 THEN <<>> ELSE Append(Pad(n \div 10, w - 1), Zero + (n % 10))

RECURSIVE StrLess(_, _)
\* Python's s < t on str: lexicographic by code point, a proper prefix first
StrLess(s, t) ==
    IF t = <<>> THEN FALSE
    ELSE IF s = <<>> THEN TRUE
    ELSE IF Head(s) # Head(t) THEN Head(s) < Head(t)
    ELSE StrLess(Tail(s), Tail(t))

\* numpy's round-half-to-even of the rational n/d (d > 0) to an integer
RoundHalfEven(n, d) ==
    LET q == n \div d
        r == n % d
    IN  IF 2 * r < d THEN q
        ELSE IF 2 * r > d THEN q + 1
        ELSE IF q % 2 = 0 THEN q ELSE q + 1

RECURSIVE SumOver(_, _)
\* the sum of column col over a sequence of rows
SumOver(rows, col) ==
    IF rows = <<>> THEN 0 ELSE Head(rows)[col] + SumOver(Tail(rows), col)

RECURSIVE SelectRows(_, _)
\* boolean-mask indexing df[mask]: the rows whose index is in keep, in order
SelectRows(rows, keep) ==
    IF rows = <<>> THEN <<>>
    ELSE LET rest == SelectRows(Tail(rows), {i - 1 : i \in keep \ {1}})
         IN  IF 1 \in keep THEN <<Head(rows)>> \o rest ELSE rest

RECURSIVE Unique(_)
\* Series.unique(): the distinct values in order of first appearance
Unique(s) ==
    IF s = <<>> THEN <<>>
    ELSE LET init == Unique(SubSeq(s, 1, Len(s) - 1))
             last == s[Len(s)]
         IN  IF \E i \in 1..Len(init) : init[i] = last THEN init
             ELSE Append(init, last)

Range(s) == {s[i] : i \in 1..Len(s)}

\* sorted(...), and the key order of groupby, on strings: the set S as a
\* sequence in ascending string order
SortedStrings(S) ==
    [i \in 1..Cardinality(S) |->
        CHOOSE x \in S : Cardinality({y \in S : StrLess(y, x)}) = i - 1]

\* DataFrame.head(n)
head(s, n) == SubSeq(s, 1, IF Len(s) < n THEN Len(s) ELSE n)

RECURSIVE Orders(_, _, _, _)
\* The results sort_values(by=col, ascending=asc) can return for the rows with
\* index in I.  Its default kind is "quicksort", which pandas documents as not
\* stable: rows with equal values of col come out in an order that depends on
\* the numpy build, so every order of such rows is a possible result.
Orders(rows, I, col, asc) ==
    IF I = {} THEN {<<>>}
    ELSE LET first == {i \in I : \A j \in I :
                          IF asc THEN rows[i][col] <= rows[j][col]
                                 ELSE rows[i][col] >= rows[j][col]}
         IN  UNION {{<<rows[i]>> \o t : t \in Orders(rows, I \ {i}, col, asc)} :
                    i \in first}

sort_values(rows, col, asc) == Orders(rows, 1..Len(rows), col, asc)

-----------------------------------------------------------------------------
(* Dataset *)

\* an empty CSV cell, which read_csv turns into NaN
NaN == <<>>

\* the uploader widget while it holds nothing
NoFile == [present |-> FALSE, cols |-> {}, rows |-> <<>>]

\* a CSV file with header cols and data rows
File(cols, rows) == [present |-> TRUE, cols |-> cols, rows |-> rows]

required_cols == {"Units", "Billed Amount", "Net Payment", "Date", "Provider", "CPT"}

\* Timestamp order on calendar dates
DateLE(a, b) ==
    \/ a.y < b.y
    \/ a.y = b.y /\ a.m < b.m
    \/ a.y = b.y /\ a.m = b.m /\ a.d <= b.d

\* Date.dt.to_period("M").astype(str): "YYYY-MM"
MonthKey(date) == Pad(date.y, 4) \o <<Dash>> \o Pad(date.m, 2)

\* clinic_df["CPT"].astype(str) on one row of an integer CPT column
CptAsStr(row) == [row EXCEPT !.CPT = Digits(row.CPT)]

\* lines 39-42: what read_csv plus the CPT cast leave in clinic_df
LoadFrame(file) ==
    [i \in 1..Len(file.rows) |->
        IF "CPT" \in file.cols THEN CptAsStr(file.rows[i]) ELSE file.rows[i]]


\* Provider.dropna().unique().tolist()
Providers(df) ==
    LET col == [i \in 1..Len(df) |-> df[i].Provider]
    IN  Unique(SelectRows(col, {i \in 1..Len(col) : col[i] # NaN}))

\* the provider grouping with agg "first" in place of "sum" for Units
GroupByProviderFirst(df) ==
    LET keys == SortedStrings(Range(Providers(df)))
    IN  [k \in 1..Len(keys) |->
            LET g == SelectRows(df, {i \in 1..Len(df) : df[i].Provider = keys[k]})
            IN  [Provider |-> keys[k], Units |-> g[1].Units,
                 Billed_Amount |-> SumOver(g, "Billed_Amount"),
                 Net_Payment |-> SumOver(g, "Net_Payment")]]

\* groupby("Provider").agg(sum of the three numeric columns).reset_index():
\* one row per provider, in key order; rows whose key is NaN are dropped
GroupByProvider(df) ==
    LET keys == SortedStrings(Range(Providers(df)))
    IN  [k \in 1..Len(keys) |->
            LET g == SelectRows(df, {i \in 1..Len(df) : df[i].Provider = keys[k]})
            IN  [Provider |-> keys[k], Units |-> SumOver(g, "Units"),
                 Billed_Amount |-> SumOver(g, "Billed_Amount"),
                 Net_Payment |-> SumOver(g, "Net_Payment")]]

\* groupby("CPT").agg(sum of the three numeric columns): one row per code, in
\* the string order of the codes
GroupByCpt(df) ==
    LET keys == SortedStrings({df[i].CPT : i \in 1..Len(df)})
    IN  [k \in 1..Len(keys) |->
            LET g == SelectRows(df, {i \in 1..Len(df) : df[i].CPT = keys[k]})
            IN  [CPT |-> keys[k], Units |-> SumOver(g, "Units"),
                 Billed_Amount |-> SumOver(g, "Billed_Amount"),
                 Net_Payment |-> SumOver(g, "Net_Payment")]]

\* the monthly period of a date, and the order of periods
Period(date) == [y |-> date.y, m |-> date.m]
PeriodLess(p, q) == p.y < q.y \/ (p.y = q.y /\ p.m < q.m)

\* the key order of groupby on periods
SortedPeriods(S) ==
    [i \in 1..Cardinality(S) |->
        CHOOSE x \in S : Cardinality({y \in S : PeriodLess(y, x)}) = i - 1]

\* df.groupby(df["Date"].dt.to_period("M")).agg(Billed Amount, Net Payment)
\* .reset_index(), then Month = the period as text: the rows carry no Units
GroupByMonth(df) ==
    LET keys == SortedPeriods({Period(df[i].Date) : i \in 1..Len(df)})
    IN  [k \in 1..Len(keys) |->
            LET g == SelectRows(df, {i \in 1..Len(df) : Period(df[i].Date) = keys[k]})
            IN  [Date |-> keys[k],
                 Billed_Amount |-> SumOver(g, "Billed_Amount"),
                 Net_Payment |-> SumOver(g, "Net_Payment"),
                 Month |-> MonthKey(keys[k])]]

-----------------------------------------------------------------------------
(* The seven sections, as functions of clinic_df and the widget values *)

\* lines 58-59: the Month column, and the sorted distinct months
WithMonth(df) ==
    [i \in 1..Len(df) |->
        [Date |-> df[i].Date, Provider |-> df[i].Provider, CPT |-> df[i].CPT,
         Units |-> df[i].Units, Billed_Amount |-> df[i].Billed_Amount,
         Net_Payment |-> df[i].Net_Payment, Month |-> MonthKey(df[i].Date)]]

all_months(df) == SortedStrings({MonthKey(df[i].Date) : i \in 1..Len(df)})

\* prev_m with "m <= selected_month"
prev_m_inclusive(df, selected_month) ==
    LET ms == all_months(df)
    IN  SelectRows(ms, {i \in 1..Len(ms) : ~StrLess(selected_month, ms[i])})

\* lines 67-72: the months before the selected one, in sorted order
prev_m(df, selected_month) ==
    LET ms == all_months(df)
    IN  SelectRows(ms, {i \in 1..Len(ms) : StrLess(ms[i], selected_month)})

\* lines 62-77: totals of the selected month and their deltas against the
\* last entry of prev_m (zero when prev_m is empty)
ExecutiveSummaryOf(df, selected_month) ==
    LET md   == SelectRows(df, {i \in 1..Len(df) : MonthKey(df[i].Date) = selected_month})
        pm   == prev_m(df, selected_month)
        prev == IF pm = <<>> THEN <<>>
                ELSE SelectRows(df, {i \in 1..Len(df) : MonthKey(df[i].Date) = pm[Len(pm)]})
        tm_units  == SumOver(md, "Units")
        tm_billed == SumOver(md, "Billed_Amount")
        tm_paid   == SumOver(md, "Net_Payment")
    IN  [kind |-> "summary", selected_month |-> selected_month,
         tm_units |-> tm_units, tm_billed |-> tm_billed, tm_paid |-> tm_paid,
         d_units  |-> tm_units - SumOver(prev, "Units"),
         d_billed |-> tm_billed - SumOver(prev, "Billed_Amount"),
         d_paid   |-> tm_paid - SumOver(prev, "Net_Payment")]

\* line 113: head(10)
TopN == 10

\* fil with "Date < end"
fil_exclusive_end(df, sel_prov, sel_range) ==
    SelectRows(df, {i \in 1..Len(df) :
                       /\ df[i].Provider \in sel_prov
                       /\ DateLE(sel_range[1], df[i].Date)
                       /\ DateLE(df[i].Date, sel_range[2])
                       /\ df[i].Date # sel_range[2]})

\* lines 89-93: the rows of the selected providers inside the date range
fil(df, sel_prov, sel_range) ==
    SelectRows(df, {i \in 1..Len(df) :
                       /\ df[i].Provider \in sel_prov
                       /\ DateLE(sel_range[1], df[i].Date)
                       /\ DateLE(df[i].Date, sel_range[2])})

\* line 99
prod_sum(df, sel_prov, sel_range) == GroupByProvider(fil(df, sel_prov, sel_range))

\* lines 110-114: the possible top-10 tables
cpt_sum(df) == {head(t, TopN) : t \in sort_values(GroupByCpt(df), "Units", FALSE)}

\* lines 134-136 and 155-157
plot_monthly_trend(df) == GroupByMonth(df)

\* the comparison with "len(sel_two) >= 1"
ProviderComparisonOfAny(df, sel_two) ==
    IF Cardinality(sel_two) >= 1
    THEN [kind |-> "comparison", sel_two |-> sel_two,
          cs |-> GroupByProvider(SelectRows(df, {i \in 1..Len(df) : df[i].Provider \in sel_two}))]
    ELSE [kind |-> "comparison_prompt", sel_two |-> sel_two]

\* lines 178-198: the comparison table, or only the prompt
ProviderComparisonOf(df, sel_two) ==
    IF Cardinality(sel_two) = 2
    THEN [kind |-> "comparison", sel_two |-> sel_two,
          cs |-> GroupByProvider(SelectRows(df, {i \in 1..Len(df) : df[i].Provider \in sel_two}))]
    ELSE [kind |-> "comparison_prompt", sel_two |-> sel_two]

-----------------------------------------------------------------------------
(* Section 7: the synthetic KPI generator and the rates of its last month *)

DaysIn(y, m) ==
    IF m = 2 THEN (IF y % 4 = 0 /\ (y % 100 # 0 \/ y % 400 = 0) THEN 29 ELSE 28)
    ELSE IF m \in {4, 6, 9, 11} THEN 30 ELSE 31

NextDay(date) ==
    IF date.d < DaysIn(date.y, date.m) THEN [date EXCEPT !.d = @ + 1]
    ELSE IF date.m < 12 THEN [y |-> date.y, m |-> date.m + 1, d |-> 1]
    ELSE [y |-> date.y + 1, m |-> 1, d |-> 1]

RECURSIVE date_range(_, _)
\* pd.date_range(start, periods): that many consecutive days
date_range(start, periods) ==
    IF periods = 0 THEN <<>>
    ELSE <<start>> \o date_range(NextDay(start), periods - 1)

\* rounding towards minus infinity in place of np.round
Round2Floor(num, den) == num \div den

\* np.round(v, 2) of an amount of num/den cents, in cents
Round2(num, den) == RoundHalfEven(num, den)

\* lines 216-218: the four aging buckets, b the Dirichlet shares as numerators
\* over their common denominator
ar_age(ar_tot, b) ==
    LET den == b[1] + b[2] + b[3] + b[4]
    IN  [i \in 1..4 |-> Round2(ar_tot * b[i], den)]

\* lines 208-225, the loop body: the record made from one set of random draws.
\* draw.x is the Normal draw in tenths of a cent per visit, draw.collect the
\* Uniform draw in thousandths.
GenRecord(date, prov, draw) ==
    LET completed == draw.visits - draw.no_shows
        billed    == Round2(completed * draw.x, 10)
        net_paid  == Round2(billed * draw.collect, 1000)
        age       == ar_age(billed - net_paid, draw.b)
    IN  [Date |-> date, Provider |-> prov, Visits |-> draw.visits,
         NoShows |-> draw.no_shows, TMS |-> draw.tms,
         Billed |-> billed, NetPayment |-> net_paid, Denials |-> draw.denials,
         AR_0_30 |-> age[1], AR_31_60 |-> age[2],
         AR_61_90 |-> age[3], AR_90_plus |-> age[4],
         AvgRevPerVisit |-> IF completed > 0
                            THEN [num |-> net_paid, den |-> completed]
                            ELSE [num |-> 0, den |-> 1]]

\* what the distributions of lines 208-217 allow a draw to be
DrawOK(draw) ==
    /\ draw.no_shows \in 0..draw.visits
    /\ draw.tms \in 0..(draw.visits - draw.no_shows)
    /\ draw.denials \in 0..(draw.visits - draw.no_shows)
    /\ \A i \in 1..4 : draw.b[i] > 0

\* lines 203-226: one record per date and per provider of clinic_df, dates in
\* the outer loop; draws[k] is what the random source yields for record k
generate_fake_kpis(df, start_date, days, draws) ==
    LET dates == date_range(start_date, days)
        ps    == Providers(df)
        n     == Len(ps)
    IN  [k \in 1..(days * n) |->
            GenRecord(dates[((k - 1) \div n) + 1], ps[((k - 1) % n) + 1], draws[k])]

\* a float division as numpy does it: no exception, NaN for 0/0
FloatDiv(num, den) ==
    IF den # 0 THEN [tag |-> "num", num |-> num, den |-> den]
    ELSE IF num = 0 THEN [tag |-> "nan"] ELSE [tag |-> "inf"]

\* f"{r:.1%}" and f"{r*100:.1f}%": tenths of a percent, or "nan%" / "inf%"
FormatPct(r) ==
    IF r.tag = "num"
    THEN [tag |-> "pct", tenths |-> RoundHalfEven(1000 * r.num, r.den)]
    ELSE [tag |-> r.tag]

\* lines 231-236: the monthly sums with the two rate columns
mp(kpi) ==
    LET keys == SortedStrings({MonthKey(kpi[i].Date) : i \in 1..Len(kpi)})
    IN  [k \in 1..Len(keys) |->
            LET g == SelectRows(kpi, {i \in 1..Len(kpi) : MonthKey(kpi[i].Date) = keys[k]})
                visits == SumOver(g, "Visits")
            IN  [Month |-> keys[k], Visits |-> visits,
                 NoShows |-> SumOver(g, "NoShows"), TMS |-> SumOver(g, "TMS"),
                 Denials |-> SumOver(g, "Denials"), Billed |-> SumOver(g, "Billed"),
                 NetPayment |-> SumOver(g, "NetPayment"),
                 NoShowRate |-> FloatDiv(SumOver(g, "NoShows"), visits),
                 DenialRate |-> FloatDiv(SumOver(g, "Denials"), visits)]]

\* lines 231-245: the four metrics of the last month; an empty frame has no
\* "Date" column and line 232 raises KeyError
KpiSectionOf(fake_kpis) ==
    IF fake_kpis = <<>> THEN [kind |-> "exception", error |-> "KeyError"]
    ELSE LET months == mp(fake_kpis)
             latest == months[Len(months)]
         IN  [kind |-> "kpi", fake_kpis |-> fake_kpis,
              month |-> latest.Month, visits |-> latest.Visits,
              tms_pct |-> FormatPct(FloatDiv(latest.TMS, latest.Visits)),
              no_show_rate |-> FormatPct(latest.NoShowRate),
              denial_rate |-> FormatPct(latest.DenialRate)]

-----------------------------------------------------------------------------
(* The script run: one action per step of the script, for session s *)

Sessions == DOMAIN pc

Blank == [kind |-> "none"]

Idle == {"stopped", "crashed", "done"}

\* Streamlit starts a run of the whole script in a fresh namespace
StartRun(s) ==
    /\ pc' = [pc EXCEPT ![s] = "load"]
    /\ clinic_df' = [clinic_df EXCEPT ![s] = <<>>]
    /\ view' = [view EXCEPT ![s] = Blank]
    /\ UNCHANGED <<cache, cache_by>>

\* line 34: the user puts a file into the uploader, which re-runs the script
Upload(s, file) ==
    /\ pc[s] \in Idle
    /\ uploaded' = [uploaded EXCEPT ![s] = file]
    /\ StartRun(s)

\* any other widget change re-runs the script on the same file
Rerun(s) ==
    /\ pc[s] \in Idle
    /\ uploaded[s].present
    /\ UNCHANGED uploaded
    /\ StartRun(s)

\* line 47
missing(file) == required_cols \ file.cols

\* lines 34-53.  read_csv(parse_dates=["Date"]) raises ValueError when the
\* header has no Date column, before line 47 is reached.
Load(s) ==
    /\ pc[s] = "load"
    /\ UNCHANGED <<uploaded, cache, cache_by>>
    /\ IF ~uploaded[s].present
       THEN /\ view' = [view EXCEPT ![s] = [kind |-> "warning"]]
            /\ pc' = [pc EXCEPT ![s] = "stopped"]
            /\ UNCHANGED clinic_df
       ELSE IF "Date" \notin uploaded[s].cols
       THEN /\ view' = [view EXCEPT ![s] =
                            [kind |-> "exception", error |-> "ValueError"]]
            /\ pc' = [pc EXCEPT ![s] = "crashed"]
            /\ UNCHANGED clinic_df
       ELSE /\ clinic_df' = [clinic_df EXCEPT ![s] = LoadFrame(uploaded[s])]
            /\ IF missing(uploaded[s]) # {}
               THEN /\ view' = [view EXCEPT ![s] =
                         [kind |-> "error", missing |-> missing(uploaded[s])]]
                    /\ pc' = [pc EXCEPT ![s] = "stopped"]
               ELSE /\ view' = [view EXCEPT ![s] = [kind |-> "loaded"]]
                    /\ pc' = [pc EXCEPT ![s] = "summary"]

\* a section that renders v and hands over to the section at place next
Render(s, v, next) ==
    /\ view' = [view EXCEPT ![s] = v]
    /\ pc' = [pc EXCEPT ![s] = next]

\* an uncaught exception ends the run
Raise(s, error) == Render(s, [kind |-> "exception", error |-> error], "crashed")

\* lines 58-77; the selectbox offers the months of the data
ExecutiveSummary(s) ==
    /\ pc[s] = "summary"
    /\ \E selected_month \in Range(all_months(clinic_df[s])) :
          Render(s, ExecutiveSummaryOf(clinic_df[s], selected_month), "productivity")
    /\ clinic_df' = [clinic_df EXCEPT ![s] = WithMonth(clinic_df[s])]
    /\ UNCHANGED <<uploaded, cache, cache_by>>

sort_metrics == {"Units", "Billed_Amount", "Net_Payment"}

\* lines 82-105.  The multiselect offers the providers of the data; the date
\* input returns the dates picked so far, and with fewer than two of them
\* sel_range[1] (or sel_range[0]) raises IndexError.
ProviderProductivity(s, picks) ==
    /\ pc[s] = "productivity"
    /\ UNCHANGED <<uploaded, clinic_df, cache, cache_by>>
    /\ \E sel_prov \in SUBSET Range(Providers(clinic_df[s])) :
          \/ \E sel_range \in picks \X picks, sort_metric \in sort_metrics,
                asc \in BOOLEAN :
                \E prod_sorted \in sort_values(
                        prod_sum(clinic_df[s], sel_prov, sel_range), sort_metric, asc) :
                    Render(s, [kind |-> "productivity", sel_prov |-> sel_prov,
                               sel_range |-> sel_range, sort_metric |-> sort_metric,
                               asc |-> asc, prod_sorted |-> prod_sorted], "cpt")
          \/ Raise(s, "IndexError")

\* lines 110-129
CptAnalysis(s) ==
    /\ pc[s] = "cpt"
    /\ UNCHANGED <<uploaded, clinic_df, cache, cache_by>>
    /\ \E t \in cpt_sum(clinic_df[s]) :
          Render(s, [kind |-> "cpt", cpt_sum |-> t], "trend")

\* lines 134-150
MonthlyRevenueTrend(s) ==
    /\ pc[s] = "trend"
    /\ UNCHANGED <<uploaded, clinic_df, cache, cache_by>>
    /\ Render(s, [kind |-> "trend", dfm |-> plot_monthly_trend(clinic_df[s])],
              "billed_vs_paid")

\* lines 155-171: the same monthly frame, drawn as stacked bars
BilledVsPaid(s) ==
    /\ pc[s] = "billed_vs_paid"
    /\ UNCHANGED <<uploaded, clinic_df, cache, cache_by>>
    /\ Render(s, [kind |-> "billed_vs_paid",
                  dfm |-> plot_monthly_trend(clinic_df[s])], "comparison")

\* lines 176-198; max_selections=2 lets the user select at most two
ProviderComparison(s) ==
    /\ pc[s] = "comparison"
    /\ UNCHANGED <<uploaded, clinic_df, cache, cache_by>>
    /\ \E sel_two \in {S \in SUBSET Range(Providers(clinic_df[s])) :
                            Cardinality(S) <= 2} :
          Render(s, ProviderComparisonOf(clinic_df[s], sel_two), "kpi")

\* line 228: the call with its default arguments, scaled from 365 days
\* starting 2024-01-01 to KpiDays days that still cross a month boundary
KpiDays == 2
KpiStart == [y |-> 2024, m |-> 1, d |-> 31]

KpiEnd(v) == IF v.kind = "exception" THEN "crashed" ELSE "done"

\* lines 201-243.  st.cache_data keeps one store per server process, keyed by
\* the function and its arguments (start_date, days); clinic_df, which the
\* function body reads, is not part of the key.
SyntheticKpis(s, Draws) ==
    /\ pc[s] = "kpi"
    /\ UNCHANGED <<uploaded, clinic_df>>
    /\ LET key == <<KpiStart, KpiDays>>
       IN  \/ \E e \in cache :
                /\ e.key = key
                /\ Render(s, KpiSectionOf(e.value), KpiEnd(KpiSectionOf(e.value)))
                /\ UNCHANGED <<cache, cache_by>>
           \/ /\ \A e \in cache : e.key # key
              /\ \E draws \in [1..(KpiDays * Len(Providers(clinic_df[s]))) -> Draws] :
                    LET t == generate_fake_kpis(clinic_df[s], KpiStart, KpiDays, draws)
                    IN  /\ cache' = cache \cup {[key |-> key, value |-> t]}
                        /\ cache_by' = cache_by \cup {[key |-> key, session |-> s]}
                        /\ Render(s, KpiSectionOf(t), KpiEnd(KpiSectionOf(t)))

-----------------------------------------------------------------------------
(* Inputs *)

D(y, m, d) == [y |-> y, m |-> m, d |-> d]

\* provider names "A", "B", "C"
ProvA == <<65>>
ProvB == <<66>>
ProvC == <<67>>

\* one row of the CSV: (units, billed, paid) in units and cents
Row(date, prov, cpt, charge) ==
    [Date |-> date, Provider |-> prov, CPT |-> cpt, Units |-> charge[1],
     Billed_Amount |-> charge[2], Net_Payment |-> charge[3]]

Charges == {<<1, 10000, 8000>>, <<2, 20000, 15000>>}

\* the non-empty sequences of at most n rows from a set of rows
Frames(rows, n) == UNION {[1..k -> rows] : k \in 1..n}

\* the random source of the whole-script specifications
TinyDraws ==
    {[visits |-> 0, no_shows |-> 0, tms |-> 0, denials |-> 0,
      x |-> 20005, collect |-> 800, b |-> <<4, 2, 1, 1>>],
     [visits |-> 2, no_shows |-> 1, tms |-> 1, denials |-> 0,
      x |-> 20005, collect |-> 800, b |-> <<4, 2, 1, 1>>]}

MaxPipelineRows == 2

PipelineRows ==
    {Row(D(2024, 1, 5), p, 90837, <<1, 10000, 8000>>) : p \in {ProvA, ProvB, NaN}}

\* every header with complete data, and every incomplete header with one row
PipelineFiles ==
    {File(required_cols, r) : r \in Frames(PipelineRows, MaxPipelineRows)}
    \cup {File(c, r) : c \in SUBSET required_cols,
                       r \in Frames(PipelineRows, 1)}

PipelinePicks == {D(2024, 1, 5), D(2024, 2, 10)}

-----------------------------------------------------------------------------
(* The whole script, one session *)

InitOf(S) ==
    /\ uploaded = [s \in S |-> NoFile]
    /\ pc = [s \in S |-> "load"]
    /\ clinic_df = [s \in S |-> <<>>]
    /\ view = [s \in S |-> Blank]
    /\ cache = {}
    /\ cache_by = {}

Init == InitOf({1})

Next ==
    \/ \E s \in Sessions, file \in PipelineFiles : Upload(s, file)
    \/ \E s \in Sessions : Rerun(s)
    \/ \E s \in Sessions : Load(s)
    \/ \E s \in Sessions : ExecutiveSummary(s)
    \/ \E s \in Sessions : ProviderProductivity(s, PipelinePicks)
    \/ \E s \in Sessions : CptAnalysis(s)
    \/ \E s \in Sessions : MonthlyRevenueTrend(s)
    \/ \E s \in Sessions : BilledVsPaid(s)
    \/ \E s \in Sessions : ProviderComparison(s)
    \/ \E s \in Sessions : SyntheticKpis(s, TinyDraws)

Spec == Init /\ [][Next]_vars

\* C1: after loading a file that lacks required columns, the run has stopped
\* on one schema error that names exactly the missing columns, whichever they
\* are (so no section has run).
C1_SchemaErrorNamesMissing ==
    \A s \in Sessions :
        (uploaded[s].present /\ missing(uploaded[s]) # {} /\ pc[s] # "load")
        => /\ pc[s] = "stopped"
           /\ view[s] = [kind |-> "error", missing |-> missing(uploaded[s])]

\* the explicit "undefined" outcome a guarded rate would yield
DivisionUndefined == [tag |-> "undefined"]

\* C5: when the displayed month has no visits, the three displayed rates are
\* the explicit undefined outcome, not NaN.
C5_ZeroVisitsYieldUndefined ==
    \A s \in Sessions :
        (view[s].kind = "kpi" /\ view[s].visits = 0)
        => /\ view[s].no_show_rate = DivisionUndefined
           /\ view[s].denial_rate = DivisionUndefined
           /\ view[s].tms_pct = DivisionUndefined

\* C9: the synthetic set shown by the KPI section has exactly one record per
\* pair of a generated date and a provider of the dataset loaded in this run.
C9_KpisMatchLoadedProviders ==
    \A s \in Sessions :
        view[s].kind = "kpi"
        => LET t == view[s].fake_kpis
               want == Range(date_range(KpiStart, KpiDays))
                           \X Range(Providers(clinic_df[s]))
           IN  /\ {<<t[i].Date, t[i].Provider>> : i \in 1..Len(t)} = want
               /\ Len(t) = Cardinality(want)

-----------------------------------------------------------------------------
(* The whole script, two sessions of one server *)

SessionFiles ==
    {File(required_cols, <<Row(D(2024, 1, 5), p, 90837, <<1, 10000, 8000>>)>>) :
        p \in {ProvA, ProvB}}

SessionPicks == {D(2024, 1, 5)}

InitSessions == InitOf({1, 2})

NextSessions ==
    \/ \E s \in Sessions, file \in SessionFiles : Upload(s, file)
    \/ \E s \in Sessions : Rerun(s)
    \/ \E s \in Sessions : Load(s)
    \/ \E s \in Sessions : ExecutiveSummary(s)
    \/ \E s \in Sessions : ProviderProductivity(s, SessionPicks)
    \/ \E s \in Sessions : CptAnalysis(s)
    \/ \E s \in Sessions : MonthlyRevenueTrend(s)
    \/ \E s \in Sessions : BilledVsPaid(s)
    \/ \E s \in Sessions : ProviderComparison(s)
    \/ \E s \in Sessions : SyntheticKpis(s, TinyDraws)

SpecSessions == InitSessions /\ [][NextSessions]_vars

\* C10: a run's KPI section gets records that a run of its own session
\* generated, and a session that has generated records gets those same
\* records again on every later run.
C10_CachePerSession ==
    [][\A s \in Sessions :
          (pc[s] = "kpi" /\ view'[s].kind = "kpi")
          => /\ \E e \in cache_by' : e.session = s
             /\ \A e \in cache : view'[s].fake_kpis = e.value]_vars

-----------------------------------------------------------------------------
(* What the claims say, stated on the records themselves *)

RECURSIVE Total(_, _, _)
\* the sum of column col over the records of df with index in I
Total(df, I, col) ==
    IF I = {} THEN 0
    ELSE LET i == CHOOSE j \in I : TRUE
         IN  df[i][col] + Total(df, I \ {i}, col)

\* a calendar date as a number that orders like the calendar
DayNumber(date) == date.y * 10000 + date.m * 100 + date.d

\* the calendar month of a date, numbered consecutively
MonthNumber(date) == date.y * 12 + date.m

\* the records of df dated in calendar month n
InMonth(df, n) == {i \in 1..Len(df) : MonthNumber(df[i].Date) = n}

\* the records of df of provider p
OfProvider(df, p) == {i \in 1..Len(df) : df[i].Provider = p}

-----------------------------------------------------------------------------
(* Section 1 on its own: the frame is drawn, the section applied *)

Calendar == {D(2023, 12, 20), D(2024, 1, 5), D(2024, 2, 10), D(2024, 2, 28)}

MaxSummaryRows == 3

SummaryFrames ==
    Frames({Row(d, ProvA, 90837, ch) : d \in Calendar, ch \in Charges},
           MaxSummaryRows)

\* the state of a first run that has loaded rows and stands before section 1
Loaded(rows) ==
    /\ uploaded = <<File(required_cols, rows)>>
    /\ clinic_df = <<LoadFrame(File(required_cols, rows))>>
    /\ cache = {}
    /\ cache_by = {}

InitSummary ==
    \E rows \in SummaryFrames :
        /\ Loaded(rows)
        /\ pc = <<"summary">>
        /\ view = <<[kind |-> "loaded"]>>

NextSummary == \E s \in Sessions : ExecutiveSummary(s)

SpecSummary == InitSummary /\ [][NextSummary]_vars

\* C2: the summary shows the sums of the selected month's records, and each
\* delta is that sum minus the sum of the latest earlier month that has
\* records (zero when there is none); the two-record example of the
\* specification gives (2, 200, 150) and (+1, +100, +70).
C2_SummaryTotalsAndDeltas ==
    \A s \in Sessions :
        view[s].kind = "summary"
        => LET df == clinic_df[s]
               v  == view[s]
               M  == CHOOSE n \in {MonthNumber(df[i].Date) : i \in 1..Len(df)} :
                        \E i \in InMonth(df, n) : MonthKey(df[i].Date) = v.selected_month
               earlier == {MonthNumber(df[i].Date) : i \in 1..Len(df)} \cap 0..(M - 1)
               base == IF earlier = {} THEN {}
                       ELSE InMonth(df, CHOOSE n \in earlier : \A k \in earlier : k <= n)
           IN  /\ v.tm_units = Total(df, InMonth(df, M), "Units")
               /\ v.tm_billed = Total(df, InMonth(df, M), "Billed_Amount")
               /\ v.tm_paid = Total(df, InMonth(df, M), "Net_Payment")
               /\ v.d_units = v.tm_units - Total(df, base, "Units")
               /\ v.d_billed = v.tm_billed - Total(df, base, "Billed_Amount")
               /\ v.d_paid = v.tm_paid - Total(df, base, "Net_Payment")
               /\ earlier = {} =>
                     <<v.d_units, v.d_billed, v.d_paid>>
                         = <<v.tm_units, v.tm_billed, v.tm_paid>>
               /\ (/\ uploaded[s].rows =
                         <<Row(D(2024, 1, 5), ProvA, 90837, <<1, 10000, 8000>>),
                           Row(D(2024, 2, 10), ProvA, 90837, <<2, 20000, 15000>>)>>
                    /\ v.selected_month = Pad(2024, 4) \o <<Dash>> \o Pad(2, 2))
                  => /\ <<v.tm_units, v.tm_billed, v.tm_paid>> = <<2, 20000, 15000>>
                     /\ <<v.d_units, v.d_billed, v.d_paid>> = <<1, 10000, 7000>>

\* the selected month follows a month without records, and the baseline is
\* the month before that gap, with other totals than the selected month
C2_Witness ==
    \E s \in Sessions :
        /\ view[s].kind = "summary"
        /\ view[s].selected_month = MonthKey(D(2024, 2, 1))
        /\ {MonthNumber(clinic_df[s][i].Date) : i \in 1..Len(clinic_df[s])}
               = {MonthNumber(D(2023, 12, 1)), MonthNumber(D(2024, 2, 1))}
        /\ view[s].d_units # 0
        /\ view[s].d_units # view[s].tm_units

-----------------------------------------------------------------------------
(* Sections 2 to 5 on their own: the groupings *)

AggDates == {D(2024, 1, 5), D(2024, 2, 10)}

MaxAggRows == 2

\* procedure codes with their charges: two codes with equal units, whose
\* string order is the reverse of the order they are listed in, and a dearer one
CodedCharges ==
    {<<90837, <<1, 10000, 8000>>>>, <<90834, <<1, 10000, 8000>>>>,
     <<90834, <<2, 20000, 15000>>>>}

\* frames of a few rows over every combination of date, provider (or none)
\* and coded charge
SmallFrames ==
    Frames({Row(d, p, cc[1], cc[2]) : d \in AggDates, p \in {ProvA, ProvB, NaN},
                                      cc \in CodedCharges},
           MaxAggRows)

MaxWideRows == 11

\* frames of TopN rows and more with one procedure code per row (codes 8, 9,
\* 10, ...), whose units are equal in pairs of neighbouring rows
WideFrames ==
    {[i \in 1..n |->
        LET u == ((i + v) \div 2) + 1
        IN  Row(D(2024, 1, 5), ProvA, 7 + i, <<u, u * 10000, u * 8000>>)] :
     n \in TopN..MaxWideRows, v \in {0, 1}}

InitAggregation ==
    \E rows \in SmallFrames \cup WideFrames :
        /\ Loaded(rows)
        /\ pc = <<"summary">>
        /\ view = <<[kind |-> "loaded"]>>

NextAggregation ==
    \/ \E s \in Sessions : ExecutiveSummary(s)
    \/ \E s \in Sessions : ProviderProductivity(s, AggDates)
    \/ \E s \in Sessions : CptAnalysis(s)
    \/ \E s \in Sessions : MonthlyRevenueTrend(s)
    \/ \E s \in Sessions : BilledVsPaid(s)

SpecAggregation == InitAggregation /\ [][NextAggregation]_vars

\* the records that pass the filter of section 2: provider among the selected
\* ones and start <= date <= end
Passing(df, sel_prov, sel_range) ==
    {i \in 1..Len(df) :
        /\ df[i].Provider \in sel_prov
        /\ DayNumber(sel_range[1]) <= DayNumber(df[i].Date)
        /\ DayNumber(df[i].Date) <= DayNumber(sel_range[2])}

All(df) == 1..Len(df)

RECURSIVE ColumnSum(_, _)
\* the sum of a column over aggregate rows; rows without the column add nothing
ColumnSum(rows, col) ==
    IF rows = <<>> THEN 0
    ELSE (IF col \in DOMAIN Head(rows) THEN Head(rows)[col] ELSE 0)
         + ColumnSum(Tail(rows), col)

FirstRecord(df, c) == CHOOSE i \in All(df) : df[i].CPT = c /\ \A j \in 1..(i - 1) : df[j].CPT # c

\* C4: the CPT view has at most TopN rows, the codes with the most Units in
\* descending order of Units; of two codes with equal Units the one whose
\* first record comes earlier in the input stands first, and is the one kept
\* at the cut.
C4_TopTenFirstSeenFirst ==
    \A s \in Sessions :
        view[s].kind = "cpt"
        => LET df == clinic_df[s]
               t  == view[s].cpt_sum
               codes == {df[i].CPT : i \in All(df)}
               units(c) == Total(df, {i \in All(df) : df[i].CPT = c}, "Units")
               Before(c, e) == \/ units(c) > units(e)
                               \/ /\ units(c) = units(e)
                                  /\ FirstRecord(df, c) < FirstRecord(df, e)
           IN  /\ Len(t) = (IF Cardinality(codes) < TopN THEN Cardinality(codes) ELSE TopN)
               /\ \A k \in 1..Len(t) : t[k].CPT \in codes /\ t[k].Units = units(t[k].CPT)
               /\ \A k \in 1..(Len(t) - 1) : Before(t[k].CPT, t[k + 1].CPT)
               /\ \A c \in codes \ {t[k].CPT : k \in 1..Len(t)} :
                     \A k \in 1..Len(t) : Before(t[k].CPT, c)

\* C8: the provider table has one row per provider that has a record passing
\* the filter (provider selected, start <= date <= end), holding the sums of
\* those records; with no provider selected or no record in the range it has
\* no rows.
C8_ProductivityFilter ==
    \A s \in Sessions :
        view[s].kind = "productivity"
        => LET df == clinic_df[s]
               t  == view[s].prod_sorted
               pass == Passing(df, view[s].sel_prov, view[s].sel_range)
           IN  /\ {t[k].Provider : k \in 1..Len(t)} = {df[i].Provider : i \in pass}
               /\ Len(t) = Cardinality({df[i].Provider : i \in pass})
               /\ \A k \in 1..Len(t) :
                     LET mine == pass \cap OfProvider(df, t[k].Provider)
                     IN  /\ t[k].Units = Total(df, mine, "Units")
                         /\ t[k].Billed_Amount = Total(df, mine, "Billed_Amount")
                         /\ t[k].Net_Payment = Total(df, mine, "Net_Payment")
               /\ (view[s].sel_prov = {} \/ pass = {}) => t = <<>>

\* a record dated on the last day of a longer range is kept, while a record
\* inside the range of a provider that is not selected is left out
C8_Witness ==
    \E s \in Sessions :
        /\ view[s].kind = "productivity"
        /\ LET df == clinic_df[s]
               pass == Passing(df, view[s].sel_prov, view[s].sel_range)
           IN  /\ \E i \in pass : df[i].Date = view[s].sel_range[2]
               /\ view[s].sel_range[1] # view[s].sel_range[2]
               /\ \E i \in All(df) \ pass :
                     /\ df[i].Provider # NaN
                     /\ df[i].Date = view[s].sel_range[1]
               /\ Len(view[s].prod_sorted) = 1

-----------------------------------------------------------------------------
(* Section 6 on its own *)

MaxComparisonRows == 4

ComparisonFrames ==
    Frames({Row(D(2024, 1, 5), p, 90837, ch) :
                p \in {ProvA, ProvB, ProvC, NaN}, ch \in Charges},
           MaxComparisonRows)

\* the state of a first run that stands before section 6
InitComparison ==
    \E rows \in ComparisonFrames :
        /\ uploaded = <<File(required_cols, rows)>>
        /\ clinic_df = <<WithMonth(LoadFrame(File(required_cols, rows)))>>
        /\ cache = {}
        /\ cache_by = {}
        /\ pc = <<"comparison">>
        /\ view = <<[kind |-> "billed_vs_paid",
                     dfm |-> plot_monthly_trend(clinic_df[1])]>>

NextComparison == \E s \in Sessions : ProviderComparison(s)

SpecComparison == InitComparison /\ [][NextComparison]_vars

\* C7: section 6 shows a comparison table only when exactly two providers are
\* selected (more than two cannot be); the table then has exactly two rows, one
\* per selected provider, with the sums of that provider's records; otherwise
\* only the prompt is shown.
C7_ComparisonNeedsTwo ==
    \A s \in Sessions :
        pc[s] = "kpi"
        => LET df == clinic_df[s]
               v  == view[s]
           IN  /\ Cardinality(v.sel_two) <= 2
               /\ Cardinality(v.sel_two) # 2 => v.kind = "comparison_prompt"
               /\ Cardinality(v.sel_two) = 2 =>
                     /\ v.kind = "comparison"
                     /\ Len(v.cs) = 2
                     /\ {v.cs[1].Provider, v.cs[2].Provider} = v.sel_two
                     /\ \A k \in 1..2 :
                           LET mine == OfProvider(df, v.cs[k].Provider)
                           IN  /\ v.cs[k].Units = Total(df, mine, "Units")
                               /\ v.cs[k].Billed_Amount = Total(df, mine, "Billed_Amount")
                               /\ v.cs[k].Net_Payment = Total(df, mine, "Net_Payment")

\* two of three providers are compared, one of them with two records
C7_Witness ==
    \E s \in Sessions :
        /\ pc[s] = "kpi"
        /\ view[s].kind = "comparison"
        /\ Len(Providers(clinic_df[s])) = 3
        /\ \E k \in 1..2 : view[s].cs[k].Units = 3

-----------------------------------------------------------------------------
(* The loop body of generate_fake_kpis on its own: the draws are drawn, the
   record is made *)

MaxVisits == 2

\* the denominator of the Dirichlet shares
ShareDen == 8

\* the Normal draws, in tenths of a cent per visit: negative, tiny, and around
\* the mean of 200 dollars
PriceDraws == {-500050, 5, 100, 200055, 200100, 200150}

\* the Uniform draws of 0.70 to 0.95, in thousandths
CollectDraws == {700, 800, 825, 950}

WideDraws ==
    {d \in [visits : 0..MaxVisits, no_shows : 0..MaxVisits, tms : 0..MaxVisits,
            denials : {0}, x : PriceDraws, collect : CollectDraws,
            b : {b \in [1..4 -> 1..ShareDen] : b[1] + b[2] + b[3] + b[4] = ShareDen}] :
        DrawOK(d)}

InitRecord ==
    \E draw \in WideDraws :
        /\ uploaded = <<File(required_cols, <<Row(D(2024, 1, 5), ProvA, 90837,
                                                  <<1, 10000, 8000>>)>>)>>
        /\ clinic_df = <<WithMonth(LoadFrame(uploaded[1]))>>
        /\ cache = {}
        /\ cache_by = {}
        /\ pc = <<"kpi_loop">>
        /\ view = <<[kind |-> "draw", draw |-> draw]>>

\* lines 208-225: one pass of the loop body
LoopBody(s) ==
    /\ pc[s] = "kpi_loop"
    /\ Render(s, [kind |-> "record", draw |-> view[s].draw,
                  record |-> GenRecord(KpiStart, ProvA, view[s].draw)], "kpi_appended")
    /\ UNCHANGED <<uploaded, clinic_df, cache, cache_by>>

NextRecord == \E s \in Sessions : LoopBody(s)

SpecRecord == InitRecord /\ [][NextRecord]_vars

\* how far the four buckets of a record are from Billed - NetPayment, in cents
BucketGap(r) ==
    LET gap == (r.AR_0_30 + r.AR_31_60 + r.AR_61_90 + r.AR_90_plus)
                   - (r.Billed - r.NetPayment)
    IN  IF gap < 0 THEN -gap ELSE gap

\* C6, as stated: the four buckets of every record are within 0.01 of
\* Billed - NetPayment.
C6_BucketsWithinOneCent ==
    \A s \in Sessions :
        view[s].kind = "record" => BucketGap(view[s].record) <= 1

\* C6, amended: the four buckets of every record are within 0.02 of
\* Billed - NetPayment, Billed and NetPayment being the rounded products of
\* the claim.
C6_BucketsWithinTwoCents ==
    \A s \in Sessions :
        view[s].kind = "record"
        => LET r == view[s].record
               d == view[s].draw
           IN  /\ r.Billed = RoundHalfEven((d.visits - d.no_shows) * d.x, 10)
               /\ r.NetPayment = RoundHalfEven(r.Billed * d.collect, 1000)
               /\ BucketGap(r) <= 2

\* a record whose buckets are a full 0.02 away from Billed - NetPayment
C6_Witness ==
    \E s \in Sessions :
        /\ view[s].kind = "record"
        /\ view[s].record.Billed > 0
        /\ BucketGap(view[s].record) = 2

=============================================================================
